---- MODULE Spec2Model ----
(***************************************************************************)
(* A model of the tqdm.c progress engine (src/src/tqdm.c): the instance    *)
(* state machine, the throttle policy and the close/destroy life cycle.    *)
(*                                                                         *)
(* Spec         : one caller drives one instance through the counting and   *)
(*                life-cycle calls; every API call is one step.            *)
(* SpecDisabled : one caller drives a disabled instance through every      *)
(*                call that can reach the sink.                            *)
(* SpecUpdateMT : several threads call tqdm_update on one instance.        *)
(* SpecMT       : several threads share one instance; a call is split at   *)
(*                the points where the code reads or writes the instance   *)
(*                outside its mutex, acquires the mutex and leaves it.     *)
(* SpecPause    : one caller pauses, resumes, counts, resets and closes.   *)
(* SpecDestroy  : one caller destroys an instance, possibly twice.         *)
(* SpecCreate   : one constructor call, over the caller's parameters, the  *)
(*                environment and the allocation that fails, if any.       *)
(* SpecAll      : one caller uses every operation on an enabled instance.  *)
(* SpecLoop     : one caller pulls the elements of an array in a loop.     *)
(* SpecWrite    : several threads call tqdm_write and tqdm_set_lock.       *)
(* SpecRange    : one caller loops over a range iterator.                  *)
(* SpecFormat   : one call of tqdm_format_meter, over its arguments.       *)
(* SpecLoopMT   : several threads pull the elements of one array.          *)
(* SpecExternal : several threads enter and leave external-write mode and  *)
(*                call tqdm_set_lock.                                      *)
(*                                                                         *)
(* Time is counted in clock ticks; a call reads the clock as often as the  *)
(* code calls current_time_seconds(), and the clock may move between two   *)
(* reads.  The sink is recorded as the tokens a call writes to it.         *)
(***************************************************************************)
EXTENDS Integers, Sequences, FiniteSets, TLC

(* ---------------------------------------------------------------- bounds *)
\* the threads sharing one instance
NThreads == 2
\* the calls each thread makes
MaxCalls == 2
\* the clock runs from 0 to MaxTime
MaxTime == 2
\* the counter n is driven no higher than MaxN
MaxN == 3
\* the largest delta handed to tqdm_update_n
MaxDelta == 2
\* without an array end the cursor is pulled at most MaxPulls elements on
MaxPulls == 2

(* ------------------------------------------------------- input universes *)
Totals == {0, 2}
Initials == {1}
MinIters == {0, 2}
MinIntervals == {0, 2}
\* number of elements of the wrapped array, and of the adapter's sequence
ArraySize == 2
IterItems == 2

(* ------------------------------------------------------------ data types *)
\* size_t arithmetic wraps; the widths are scaled down (size_t wider than
\* unsigned, both far above every count of the model) to fit 32-bit
\* integers
SizeMod == 2^12
UnsignedMod == 2^8
SizeAdd(a, b) == (a + b) % SizeMod
SizeSub(a, b) == (a - b + SizeMod) % SizeMod

NULL == 0
Threads == 1..NThreads
NoThread == 0
\* address of the first array element and sizeof one element
BaseAddr == 8
ElemSize == 4

Min(a, b) == IF a < b THEN a ELSE b

VARIABLES
  t,         \* the tqdm_t instance (struct tqdm_s with its params)
  now,       \* the last value read from the clock
  freed,     \* the instance was released by tqdm_destroy
  it,        \* the adapter's sequence: items not yet produced
  released,  \* how often the adapter's destroy_func was invoked
  out,       \* what the last API call wrote to the sink, in order
  closing,   \* all that tqdm_close has written to the sink, in order
  t0,        \* the instance as it was constructed
  pc,        \* per thread: where it stands in the call it is making
  lock,      \* the thread holding tqdm->lock, or NoThread
  reg,       \* per thread: the value it has loaded from tqdm->n
  calls,     \* per thread: the calls it has begun
  pauses,    \* the pauses since the start: whether one is on, since when,
             \* and the summed length of those that ended
  ret,       \* what the last call returned, when it was tqdm_update_to
  fault,     \* the program has read or freed memory it had released
  ctor,      \* the constructor call under study, and its outcome
  got,       \* the elements the caller's loop has received, in order
  wlock,     \* tqdm_global_lock, the mutexes it can name, and each
             \* thread's tqdm_write call
  range,     \* the range_iterator_t under study
  fmt        \* the tqdm_format_meter call under study, and what it built

vars ==
  <<t, now, freed, it, released, out, closing, t0, pc, lock, reg, calls,
    pauses, ret, fault, ctor, got, wlock, range, fmt>>
threadvars == <<pc, lock, reg, calls>>
\* the state of tqdm_write, of the range iterator and of the formatter
sidevars == <<wlock, range, fmt>>

(* --------------------------------------------------------------- helpers *)
\* a later reading of the clock: any time from tm on
Later(tm) == tm..MaxTime
\* a reading taken within the same call as the reading tm
Soon(tm) == tm..Min(tm + 1, MaxTime)

NoWrite == <<>>
\* an absent string (a NULL char pointer)
NoStr == "NULL"
Strings == {NoStr, "x"}
\* tqdm_default_params: mininterval 0.1 s is one tick
DefaultMinInterval == 1
\* smoothing is counted in tenths: 0.3 and 1.0
DefaultSmoothing == 3
SmoothingOne == 10
DefaultDivisor == 1000

\* a float that is not a number, as atof("nan") returns it; the comparisons
\* of floats are those of IEEE 754: each is false when an operand is NaN
NaN == 2^20
FloatLt(a, b) == a # NaN /\ b # NaN /\ a < b
FloatGt(a, b) == a # NaN /\ b # NaN /\ a > b
FloatLe(a, b) == a # NaN /\ b # NaN /\ a <= b
FloatGe(a, b) == a # NaN /\ b # NaN /\ a >= b

\* no pause so far
NoPauses == [on |-> FALSE, since |-> 0, total |-> 0]
\* the last call was not tqdm_update_to
NoRet == "none"
\* the bool a call returned, as it is recorded
Returned(b) == IF b THEN "true" ELSE "false"
\* no constructor call is under study
NoCtor == [done |-> FALSE]
\* no tqdm_write is under way and tqdm_global_lock is NULL
NoWriteLock == [global |-> "NULL"]
\* no range iterator under study
NoRange == [start |-> 0, current |-> 0, total |-> 0, step |-> 0]
\* no tqdm_format_meter call under study
NoFmt == [done |-> FALSE]

(* ------------------------------------------------------- throttle policy *)
\* is_complete of tqdm_update_n, tqdm_update_to and tqdm_next
IsComplete(s) == s.total > 0 /\ s.n >= s.total

\* tqdm_update_dynamic_miniters, the clock reading tm
tqdm_update_dynamic_miniters(s, tm) ==
  LET time_diff == tm - s.last_print_time
      count_diff == SizeSub(s.n, s.last_print_count)
  IN IF time_diff > 0 /\ s.miniters = 0
          /\ count_diff > 0 /\ time_diff < s.mininterval
       THEN [s EXCEPT !.miniters = ((count_diff * 2) % SizeMod) % UnsignedMod]
       ELSE s

\* a should_print whose count gate forgets completion
ShouldPrint_countonly(s, diff, tm) ==
  /\ s.miniters = 0 \/ diff >= s.miniters
  /\ IsComplete(s) \/ tm - s.last_print_time >= s.mininterval

\* should_print: the nested gates shared by the three advancing operations;
\* diff is the count difference the caller compares with miniters
ShouldPrint(s, diff, tm) ==
  /\ IsComplete(s) \/ s.miniters = 0 \/ diff >= s.miniters
  /\ IsComplete(s) \/ tm - s.last_print_time >= s.mininterval

(* --------------------------------------------------------------- render *)
\* tqdm_print_progress: the elapsed time a render at clock reading tm shows
Elapsed(s, tm) == tm - s.start_time - s.total_pause_time

\* tqdm_print_progress: the rate a render at clock reading tm shows, as the
\* fraction <<count, time>>; <<0, 1>> stands for 0.0
Rate(s, tm) == IF Elapsed(s, tm) > 0 THEN <<s.n, Elapsed(s, tm)>> ELSE <<0, 1>>

\* a tqdm_print_progress that records the time of a render, not its count
tqdm_print_progress_keeps_count(s, tm) ==
  IF s.disable \/ s.closed
    THEN [t |-> s, out |-> NoWrite]
    ELSE [t |-> [s EXCEPT !.last_print_time = tm], out |-> <<"render">>]

\* tqdm_print_progress at clock reading tm: the instance after it and the
\* tokens written
tqdm_print_progress(s, tm) ==
  IF s.disable \/ s.closed
    THEN [t |-> s, out |-> NoWrite]
    ELSE [t |-> [s EXCEPT !.last_print_time = tm, !.last_print_count = s.n],
          out |-> <<"render">>]

\* a tqdm_clear that does not test the disabled flag
tqdm_clear_unguarded(s) == <<"erase">>

\* tqdm_clear
tqdm_clear(s) == IF s.disable THEN NoWrite ELSE <<"erase">>

\* the bytes each token stands for, from the format string of its fprintf:
\* CR is "\r", EL is the line-clear escape "\033[K", LF is "\n", meter is
\* the string tqdm_format_meter built and msg the caller's message
SinkBytes(token) ==
  CASE token = "render"  -> <<"CR", "meter">>
    [] token = "erase"   -> <<"CR", "EL">>
    [] token = "nl"      -> <<"LF">>
    [] token = "display" -> <<"CR", "EL", "msg">>
    [] token = "write"   -> <<"CR", "EL", "msg", "end">>

(* ------------------------------------------------------------ the meter *)
\* A double is kept as the fraction <<a, b>> it equals.  Its significand
\* has DoubleBits bits; like the integer widths it is scaled down, and like
\* them it is narrower than size_t.  Every operation rounds its exact
\* result to the nearest double, ties to the even significand.
DoubleBits == 10

\* a / b rounded to an integer, ties to even: also what "%3.0f" prints
RoundHalfEven(a, b) ==
  LET q == a \div b
      r == a % b
  IN IF 2 * r < b THEN q
     ELSE IF 2 * r > b THEN q + 1
     ELSE IF q % 2 = 0 THEN q ELSE q + 1

\* the double nearest to (a / b) * (up / down), a > 0: a and b are scaled
\* until the quotient has DoubleBits bits, then it is rounded
RECURSIVE RoundScaled(_, _, _, _)
RoundScaled(a, b, up, down) ==
  IF a >= 2^DoubleBits * b THEN RoundScaled(a, 2 * b, 2 * up, down)
  ELSE IF a < 2^(DoubleBits - 1) * b THEN RoundScaled(2 * a, b, up, 2 * down)
  ELSE <<RoundHalfEven(a, b) * up, down>>

\* the double nearest to a / b
RoundDouble(a, b) == IF a = 0 THEN <<0, 1>> ELSE RoundScaled(a, b, 1, 1)

\* (double)n of a size_t or an int
ToDouble(n) == RoundDouble(n, 1)
\* x * y and x / y in double arithmetic
DoubleMul(x, y) == RoundDouble(x[1] * y[1], x[2] * y[2])
DoubleDiv(x, y) == RoundDouble(x[1] * y[2], x[2] * y[1])
\* (int)x of a double that is not negative
DoubleToInt(x) == x[1] \div x[2]

\* the percentage tqdm_format_meter prints with "%3.0f"
format_percentage(n, total) ==
  LET percentage == IF total > 0
                      THEN DoubleDiv(DoubleMul(<<100, 1>>, ToDouble(n)),
                                     ToDouble(total))
                      ELSE <<0, 1>>
      capped == IF percentage[1] > 100 * percentage[2] THEN <<100, 1>>
                ELSE percentage
  IN RoundHalfEven(capped[1], capped[2])

\* a bar_width without the upper limit of 100
format_bar_width_uncapped(ncols, prefix, postfix) ==
  LET estimated_fixed == 50 + prefix + postfix
      w == IF ncols > estimated_fixed THEN ncols - estimated_fixed ELSE 10
  IN IF w < 1 THEN 1 ELSE w

\* bar_width; prefix and postfix are the lengths of the description and of
\* the postfix (0 for a NULL string)
format_bar_width(ncols, prefix, postfix) ==
  LET estimated_fixed == 50 + prefix + postfix
      w == IF ncols > estimated_fixed THEN ncols - estimated_fixed ELSE 10
  IN IF w < 1 THEN 1 ELSE IF w > 100 THEN 100 ELSE w

\* the int a size_t expression is cast to; int is narrower than size_t
IntMod == 2^11
ToInt(x) == ((x + IntMod \div 2) % IntMod) - IntMod \div 2
\* a / b and a % b of two ints, b > 0: C truncates toward zero
IntDiv(a, b) == IF a >= 0 THEN a \div b ELSE 0 - ((0 - a) \div b)
IntRem(a, b) == a - b * IntDiv(a, b)

\* the bar: the number of full cells, the eighths of the partial cell (0
\* when there is none) and the number of blank cells
format_bar(n, total, bar_width, ascii) ==
  IF ascii
    THEN LET f == IF total > 0
                    THEN DoubleToInt(DoubleDiv(
                           DoubleMul(ToDouble(bar_width), ToDouble(n)),
                           ToDouble(total)))
                    ELSE 0
             filled == IF f > bar_width THEN bar_width ELSE f
         IN [full |-> filled, partial |-> 0, blank |-> bar_width - filled]
    ELSE IF total > 0 /\ n > 0
      THEN LET progress_fixed ==
                 ToInt(((n * 8 * bar_width) % SizeMod) \div total)
               over == IntDiv(progress_fixed, 8) > bar_width
               filled_full == IF over THEN bar_width
                              ELSE IntDiv(progress_fixed, 8)
               partial == IF over THEN 0 ELSE IntRem(progress_fixed, 8)
               cells == IF filled_full < bar_width /\ partial > 0
                          THEN filled_full + 1 ELSE filled_full
           IN [full |-> IF filled_full > 0 THEN filled_full ELSE 0,
               partial |-> IF cells > filled_full THEN partial ELSE 0,
               blank |-> IF cells < bar_width THEN bar_width - cells ELSE 0]
      ELSE [full |-> 0, partial |-> 0, blank |-> bar_width]

\* tqdm_format_meter with no bar_format: the parts of the meter studied
tqdm_format_meter(n, total, ncols, ascii, prefix, postfix) ==
  [percentage |-> format_percentage(n, total),
   bar_width |-> format_bar_width(ncols, prefix, postfix),
   bar |-> format_bar(n, total, format_bar_width(ncols, prefix, postfix),
                      ascii)]

(* --------------------------------------------------------- construction *)
\* tqdm_create_with_params, the clock reading tm
tqdm_create_with_params(begin, end, element_size, p, tm) ==
  [ current |-> begin, end |-> end, element_size |-> element_size,
    n |-> p.initial, count |-> 0,
    total |-> IF p.total = 0 /\ begin # NULL /\ end # NULL /\ element_size > 0
                THEN (end - begin) \div element_size ELSE p.total,
    leave |-> p.leave, disable |-> p.disable, initial |-> p.initial,
    miniters |-> p.miniters,
    mininterval |-> IF FloatLt(p.mininterval, 0) THEN DefaultMinInterval
                    ELSE p.mininterval,
    smoothing |-> IF FloatLt(p.smoothing, 0) \/ FloatGt(p.smoothing, SmoothingOne)
                    THEN DefaultSmoothing ELSE p.smoothing,
    unit_divisor |-> IF FloatLe(p.unit_divisor, 0) THEN DefaultDivisor
                     ELSE p.unit_divisor,
    desc |-> p.desc, postfix |-> p.postfix,
    start_time |-> tm, last_print_time |-> tm, last_print_count |-> p.initial,
    closed |-> FALSE, paused |-> FALSE, pause_start |-> 0,
    total_pause_time |-> 0,
    iterator_mode |-> FALSE, destroy_func |-> FALSE ]

\* tqdm_default_params, with what tqdm_load_env_vars may override
tqdm_default_params(env) ==
  [ desc |-> NoStr, total |-> 0, leave |-> TRUE,
    mininterval |-> env.mininterval, miniters |-> env.miniters,
    disable |-> env.disable, initial |-> 0, postfix |-> NoStr,
    smoothing |-> DefaultSmoothing, unit_divisor |-> DefaultDivisor ]

\* tqdm_create_iterator: tqdm_create(NULL, NULL, 0), then adapter mode
tqdm_create_iterator(env, tm) ==
  [ tqdm_create_with_params(NULL, NULL, 0, tqdm_default_params(env), tm)
      EXCEPT !.iterator_mode = TRUE, !.destroy_func = TRUE ]

\* tqdm_load_env_vars: a variable that is set replaces the field; an
\* environment gives each variable as the empty set (unset) or {value}
tqdm_load_env_vars(p, env) ==
  [p EXCEPT
     !.mininterval = IF env.mininterval = {} THEN @
                     ELSE CHOOSE v \in env.mininterval : TRUE,
     !.smoothing = IF env.smoothing = {} THEN @
                   ELSE CHOOSE v \in env.smoothing : TRUE]

\* the strings of tqdm_params_t, in the order the constructor copies them
StringFields == <<"desc", "unit", "bar_format", "colour", "postfix">>
\* the allocations of the constructor, in order
AllocSites == <<"tqdm">> \o StringFields \o <<"rate_history">>
Range(f) == {f[i] : i \in DOMAIN f}

\* tqdm_create_with_params, the strdup calls: fields is what is left to
\* copy, present the strings the caller gave, fail the allocation that
\* returns NULL, owned the copies made so far.  When a copy fails the
\* fields after it still hold the caller's pointers (borrowed).
RECURSIVE tqdm_dup_strings(_, _, _, _)
tqdm_dup_strings(fields, present, fail, owned) ==
  IF fields = <<>>
    THEN [failed |-> FALSE, owned |-> owned, borrowed |-> {}]
  ELSE IF Head(fields) \notin present
    THEN tqdm_dup_strings(Tail(fields), present, fail, owned)
  ELSE IF fail = Head(fields)
    THEN [failed |-> TRUE, owned |-> owned,
          borrowed |-> Range(Tail(fields)) \cap present]
  ELSE tqdm_dup_strings(Tail(fields), present, fail,
                        owned \cup {Head(fields)})

\* a cleanup that frees the instance and none of its strings
tqdm_create_allocs_leaky(present, fail) ==
  LET d == tqdm_dup_strings(StringFields, present, fail, {})
      failed == d.failed \/ fail = "rate_history"
  IN IF fail = "tqdm"
       THEN [ok |-> FALSE, made |-> {}, freed |-> {}, user_freed |-> {}]
     ELSE IF failed
       THEN [ok |-> FALSE, made |-> {"tqdm"} \cup d.owned,
             freed |-> {"tqdm"}, user_freed |-> {}]
     ELSE [ok |-> TRUE, made |-> {"tqdm", "rate_history"} \cup d.owned,
           freed |-> {}, user_freed |-> {}]

\* tqdm_create_with_params, its allocations and cleanup_and_fail: whether
\* an instance is returned, the allocations made for it, those freed, and
\* the strings of the caller that were passed to free
tqdm_create_allocs(present, fail) ==
  LET d == tqdm_dup_strings(StringFields, present, fail, {})
  IN IF fail = "tqdm"
       THEN [ok |-> FALSE, made |-> {}, freed |-> {}, user_freed |-> {}]
     ELSE IF d.failed
       THEN [ok |-> FALSE, made |-> {"tqdm"} \cup d.owned,
             freed |-> {"tqdm"} \cup d.owned, user_freed |-> d.borrowed]
     ELSE IF fail = "rate_history"
       THEN [ok |-> FALSE, made |-> {"tqdm"} \cup d.owned,
             freed |-> {"tqdm"} \cup d.owned, user_freed |-> {}]
     ELSE [ok |-> TRUE, made |-> {"tqdm", "rate_history"} \cup d.owned,
           freed |-> {}, user_freed |-> {}]

\* the caller's configurations
Params ==
  [ desc : {NoStr}, total : Totals, leave : BOOLEAN,
    mininterval : MinIntervals, miniters : MinIters, disable : BOOLEAN,
    initial : Initials, postfix : {NoStr},
    smoothing : {DefaultSmoothing}, unit_divisor : {DefaultDivisor} ]
Envs == [ mininterval : MinIntervals, miniters : MinIters, disable : BOOLEAN ]

\* the instances a caller can construct at time 0: manual, array, adapter
Constructed ==
  { tqdm_create_with_params(NULL, NULL, 1, p, 0) : p \in Params }
  \cup { tqdm_create_with_params(BaseAddr, BaseAddr + ArraySize * ElemSize,
                                 ElemSize, p, 0) : p \in Params }
  \cup { tqdm_create_iterator(e, 0) : e \in Envs }

(* ----------------------------------------------------------- operations *)
\* Each operation is given in two parts where the code has two: the test
\* made before the mutex is taken, and the section run under the mutex.
\* The clock readings ta, tb, tc are those of update_dynamic_miniters, of
\* the operation itself and of tqdm_print_progress.

Quiet(s) == [t |-> s, out |-> NoWrite]

\* the adapter's has_next_func on a sequence with itr items left
has_next_func(itr) == itr > 0

\* a tqdm_has_next that does not test the closed flag
tqdm_has_next_ignores_closed(s, itr) ==
  IF s.iterator_mode THEN has_next_func(itr)
  ELSE IF s.end # NULL THEN s.current < s.end
  ELSE IF s.total > 0 THEN s.n < s.total
  ELSE TRUE

\* tqdm_has_next
tqdm_has_next(s, itr) ==
  IF s.closed THEN FALSE
  ELSE IF s.iterator_mode THEN has_next_func(itr)
  ELSE IF s.end # NULL THEN s.current < s.end
  ELSE IF s.total > 0 THEN s.n < s.total
  ELSE TRUE

\* tqdm_has_next invokes the adapter's has_next_func
invokes_has_next_func(s) == ~s.closed /\ s.iterator_mode

\* tqdm_next, having passed tqdm_has_next, invokes the adapter's next_func
invokes_next_func(s) == s.iterator_mode

\* a tqdm_next that moves the cursor by one byte, not by one element
tqdm_next_locked_bytewise(s, itr, ta, tb, tc) ==
  LET s1 == IF s.iterator_mode THEN s
            ELSE [s EXCEPT !.current = s.current + 1]
      s2 == [s1 EXCEPT !.count = SizeAdd(s.count, 1), !.n = SizeAdd(s.n, 1)]
      s3 == tqdm_update_dynamic_miniters(s2, ta)
      should_print == ShouldPrint(s3, SizeSub(s3.n, s3.last_print_count), tb)
      pr == IF should_print /\ ~s3.disable
              THEN tqdm_print_progress(s3, tc) ELSE Quiet(s3)
  IN [t |-> pr.t, out |-> pr.out,
      it |-> IF s.iterator_mode /\ itr > 0 THEN itr - 1 ELSE itr,
      ret |-> IF s.iterator_mode THEN itr ELSE s.current]

\* tqdm_next under the mutex: the element, the counters, the gates
tqdm_next_locked(s, itr, ta, tb, tc) ==
  LET s1 == IF s.iterator_mode THEN s
            ELSE [s EXCEPT !.current = s.current + s.element_size]
      s2 == [s1 EXCEPT !.count = SizeAdd(s.count, 1), !.n = SizeAdd(s.n, 1)]
      s3 == tqdm_update_dynamic_miniters(s2, ta)
      should_print == ShouldPrint(s3, SizeSub(s3.n, s3.last_print_count), tb)
      pr == IF should_print /\ ~s3.disable
              THEN tqdm_print_progress(s3, tc) ELSE Quiet(s3)
  IN [t |-> pr.t, out |-> pr.out,
      it |-> IF s.iterator_mode /\ itr > 0 THEN itr - 1 ELSE itr,
      ret |-> IF s.iterator_mode THEN itr ELSE s.current]

\* tqdm_update_n: the test before the mutex
tqdm_update_n_enters(s) == ~(s.closed \/ s.disable)

\* a tqdm_update_n that counts only in the calls that render
tqdm_update_n_locked_onrender(s, delta, ta, tb, tc) ==
  LET s1 == [s EXCEPT !.n = SizeAdd(s.n, delta)]
      s2 == tqdm_update_dynamic_miniters(s1, ta)
      should_print == ShouldPrint(s2, SizeSub(s2.n, s2.last_print_count), tb)
  IN IF should_print THEN tqdm_print_progress(s2, tc) ELSE Quiet(s)

\* tqdm_update_n under the mutex
tqdm_update_n_locked(s, delta, ta, tb, tc) ==
  LET s1 == [s EXCEPT !.n = SizeAdd(s.n, delta)]
      s2 == tqdm_update_dynamic_miniters(s1, ta)
      should_print == ShouldPrint(s2, SizeSub(s2.n, s2.last_print_count), tb)
  IN IF should_print THEN tqdm_print_progress(s2, tc) ELSE Quiet(s2)

\* tqdm_update_to: delta, the advance the count gate is given
update_to_delta(s, v) == IF v > s.n THEN v - s.n ELSE 0

\* a set-to that never lowers the count
tqdm_update_to_locked_monotone(s, v, ta, tb, tc) ==
  LET delta == update_to_delta(s, v)
      s1 == [s EXCEPT !.n = IF v > s.n THEN v ELSE s.n]
      s2 == tqdm_update_dynamic_miniters(s1, ta)
      should_print == ShouldPrint(s2, delta, tb)
      pr == IF should_print THEN tqdm_print_progress(s2, tc) ELSE Quiet(s2)
  IN [t |-> pr.t, out |-> pr.out, ret |-> should_print]

\* tqdm_update_to under the mutex; ret is the value returned
tqdm_update_to_locked(s, v, ta, tb, tc) ==
  LET delta == update_to_delta(s, v)
      s1 == [s EXCEPT !.n = v]
      s2 == tqdm_update_dynamic_miniters(s1, ta)
      should_print == ShouldPrint(s2, delta, tb)
      pr == IF should_print THEN tqdm_print_progress(s2, tc) ELSE Quiet(s2)
  IN [t |-> pr.t, out |-> pr.out, ret |-> should_print]

\* a tqdm_close whose final render goes through the gates
tqdm_close_locked_gated(s, tm) ==
  LET pr == IF ShouldPrint(s, SizeSub(s.n, s.last_print_count), tm)
              THEN tqdm_print_progress(s, tm) ELSE Quiet(s)
  IN IF s.leave /\ ~s.disable
       THEN [t |-> [pr.t EXCEPT !.closed = TRUE], out |-> pr.out \o <<"nl">>]
     ELSE IF ~s.leave
       THEN [t |-> [s EXCEPT !.closed = TRUE], out |-> tqdm_clear(s)]
     ELSE [t |-> [s EXCEPT !.closed = TRUE], out |-> NoWrite]

\* tqdm_close under the mutex
tqdm_close_locked(s, tm) ==
  LET pr == tqdm_print_progress(s, tm)
  IN IF s.leave /\ ~s.disable
       THEN [t |-> [pr.t EXCEPT !.closed = TRUE], out |-> pr.out \o <<"nl">>]
     ELSE IF ~s.leave
       THEN [t |-> [s EXCEPT !.closed = TRUE], out |-> tqdm_clear(s)]
     ELSE [t |-> [s EXCEPT !.closed = TRUE], out |-> NoWrite]

\* a tqdm_close without the test of the closed flag
tqdm_close_unguarded(s, tm) == tqdm_close_locked(s, tm)

\* tqdm_close
tqdm_close(s, tm) == IF s.closed THEN Quiet(s) ELSE tqdm_close_locked(s, tm)

\* tqdm_refresh: the test before the mutex
tqdm_refresh_enters(s) == ~(s.closed \/ s.disable)

\* a refresh that renders only when the gates are open
tqdm_refresh_gated(s, tm) ==
  IF tqdm_refresh_enters(s)
       /\ ShouldPrint(s, SizeSub(s.n, s.last_print_count), tm)
    THEN tqdm_print_progress(s, tm) ELSE Quiet(s)

\* tqdm_refresh
tqdm_refresh(s, tm) ==
  IF tqdm_refresh_enters(s) THEN tqdm_print_progress(s, tm) ELSE Quiet(s)

\* a reset that takes every argument as the new total
tqdm_reset_always(s, total, tm) ==
  [s EXCEPT !.n = s.initial, !.count = 0, !.start_time = tm,
            !.last_print_time = tm, !.last_print_count = s.initial,
            !.total_pause_time = 0, !.paused = FALSE, !.total = total]

\* a reset that leaves the processed-item counter alone
tqdm_reset_keeps_count(s, total, tm) ==
  [s EXCEPT !.n = s.initial, !.start_time = tm,
            !.last_print_time = tm, !.last_print_count = s.initial,
            !.total_pause_time = 0, !.paused = FALSE,
            !.total = IF total > 0 THEN total ELSE s.total]

\* tqdm_reset (under the mutex from its first line)
tqdm_reset(s, total, tm) ==
  [s EXCEPT !.n = s.initial, !.count = 0, !.start_time = tm,
            !.last_print_time = tm, !.last_print_count = s.initial,
            !.total_pause_time = 0, !.paused = FALSE,
            !.total = IF total > 0 THEN total ELSE s.total]

\* a resume that clears the flag and forgets the interval
tqdm_unpause_forgets(s, tm) == [s EXCEPT !.paused = FALSE, !.pause_start = 0]

\* tqdm_unpause
tqdm_unpause(s, tm) ==
  IF ~s.paused THEN s
  ELSE [s EXCEPT !.total_pause_time = s.total_pause_time + (tm - s.pause_start),
                 !.paused = FALSE, !.pause_start = 0]

\* tqdm_set_description_str (under the mutex)
tqdm_set_description_str(s, desc, refresh, tm) ==
  LET s1 == [s EXCEPT !.desc = desc]
  IN IF refresh THEN tqdm_print_progress(s1, tm) ELSE Quiet(s1)

\* tqdm_set_postfix_str: the string is replaced outside the mutex, the
\* optional refresh is tqdm_refresh
tqdm_set_postfix_str(s, postfix, refresh, tm) ==
  LET s1 == [s EXCEPT !.postfix = postfix]
  IN IF refresh THEN tqdm_refresh(s1, tm) ELSE Quiet(s1)

\* postfix_format of a key/value list (a sequence of <<key, value>>)
RECURSIVE postfix_format(_)
postfix_format(head) ==
  IF head = <<>> THEN ""
  ELSE head[1][1] \o "=" \o head[1][2]
       \o (IF Len(head) > 1 THEN ", " \o postfix_format(Tail(head)) ELSE "")

\* the key/value lists handed to tqdm_set_postfix; NoList is a NULL list
NoList == <<>>
PostfixLists == {NoList, <<<<"k", "v">>>>}

\* tqdm_set_postfix
tqdm_set_postfix(s, list) ==
  [s EXCEPT !.postfix = IF list = NoList THEN NoStr ELSE postfix_format(list)]

\* tqdm_display
tqdm_display(s) == IF s.disable THEN NoWrite ELSE <<"display">>

\* tqdm_destroy: closes an open instance, releases the strings and the
\* rate history, invokes the adapter's destroy_func, frees the instance
tqdm_destroy(s, tm) ==
  LET c == IF ~s.closed THEN tqdm_close(s, tm) ELSE Quiet(s)
  IN [t |-> c.t, out |-> c.out,
      release |-> IF c.t.iterator_mode /\ c.t.destroy_func THEN 1 ELSE 0]

\* what is left of an instance once tqdm_destroy has freed it: nothing the
\* program may read
Freed == [tqdm_create_with_params(NULL, NULL, 0,
            [ desc |-> NoStr, total |-> 0, leave |-> FALSE, mininterval |-> 0,
              miniters |-> 0, disable |-> TRUE, initial |-> 0,
              postfix |-> NoStr, smoothing |-> DefaultSmoothing,
              unit_divisor |-> DefaultDivisor ], 0) EXCEPT !.closed = TRUE]

(* ------------------------------------------------------ one caller: Spec *)
\* the state around a new instance
Fresh ==
  /\ now = 0
  /\ it = IterItems
  /\ released = 0
  /\ out = NoWrite
  /\ closing = NoWrite
  /\ pc = [th \in Threads |-> "idle"]
  /\ lock = NoThread
  /\ reg = [th \in Threads |-> 0]
  /\ calls = [th \in Threads |-> 0]
  /\ pauses = NoPauses
  /\ ret = NoRet
  /\ fault = FALSE
  /\ got = <<>>

Init ==
  /\ t \in Constructed
  /\ t0 = t
  /\ freed = FALSE
  /\ ctor = NoCtor
  /\ wlock = NoWriteLock
  /\ range = NoRange
  /\ fmt = NoFmt
  /\ Fresh

\* the pauses since the start, after the call op made at clock reading tm
Paused(op, tm) ==
  CASE op = "pause" -> [on |-> TRUE, since |-> tm, total |-> pauses.total]
    [] op = "unpause" ->
         IF pauses.on
           THEN [on |-> FALSE, since |-> 0,
                 total |-> pauses.total + (tm - pauses.since)]
           ELSE pauses
    [] op \in {"reset", "destroy"} -> NoPauses
    [] OTHER -> pauses

\* what every call of the one caller does besides its own effect; r is
\* what the call returns, g the elements received once it has returned
CalledGot(op, s, w, tm, r, g) ==
  /\ t' = s
  /\ out' = w
  /\ closing' = IF op \in {"close", "destroy"} THEN closing \o w ELSE closing
  /\ now' = tm
  /\ t0' = t0
  /\ pauses' = Paused(op, tm)
  /\ ret' = r
  /\ got' = g
  /\ UNCHANGED <<fault, ctor>>
  /\ UNCHANGED sidevars
  /\ UNCHANGED threadvars

CalledRet(op, s, w, tm, r) == CalledGot(op, s, w, tm, r, got)

Called(op, s, w, tm) == CalledRet(op, s, w, tm, NoRet)

\* tqdm_update_n(tqdm, delta)
UpdateN ==
  \E delta \in 0..MaxDelta, ta \in Later(now) : \E tb \in Soon(ta) :
  \E tc \in Soon(tb) :
    /\ ~freed
    /\ t.n + delta <= MaxN
    /\ LET r == IF tqdm_update_n_enters(t)
                  THEN tqdm_update_n_locked(t, delta, ta, tb, tc)
                  ELSE Quiet(t)
       IN Called("update_n", r.t, r.out, tc)
    /\ UNCHANGED <<freed, it, released>>

\* tqdm_update(tqdm)
Update ==
  \E ta \in Later(now) : \E tb \in Soon(ta) : \E tc \in Soon(tb) :
    /\ ~freed
    /\ t.n + 1 <= MaxN
    /\ LET r == IF tqdm_update_n_enters(t)
                  THEN tqdm_update_n_locked(t, 1, ta, tb, tc)
                  ELSE Quiet(t)
       IN Called("update", r.t, r.out, tc)
    /\ UNCHANGED <<freed, it, released>>

\* tqdm_update_to(tqdm, v)
UpdateToV(v) ==
  \E ta \in Later(now) : \E tb \in Soon(ta) : \E tc \in Soon(tb) :
    /\ ~freed
    /\ LET r == IF tqdm_update_n_enters(t)
                  THEN tqdm_update_to_locked(t, v, ta, tb, tc)
                  ELSE [t |-> t, out |-> NoWrite, ret |-> FALSE]
       IN CalledRet("update_to", r.t, r.out, tc, Returned(r.ret))
    /\ UNCHANGED <<freed, it, released>>

UpdateTo == \E v \in 0..MaxN : UpdateToV(v)

\* tqdm_has_next(tqdm): reads the instance, changes and writes nothing
HasNext ==
  /\ ~freed
  /\ tqdm_has_next(t, it) \in BOOLEAN
  /\ UNCHANGED vars

\* tqdm_next(tqdm)
Next_ ==
  \E ta \in Later(now) : \E tb \in Soon(ta) : \E tc \in Soon(tb) :
    /\ ~freed
    /\ IF tqdm_has_next(t, it)
         THEN LET r == tqdm_next_locked(t, it, ta, tb, tc)
              IN /\ t.n + 1 <= MaxN
                 /\ (t.end # NULL \/ t.current < MaxPulls * t.element_size
                                  \/ t.element_size = 0)
                 /\ CalledGot("next", r.t, r.out, tc, NoRet,
                              Append(got, r.ret))
                 /\ it' = r.it
         ELSE /\ Called("next", t, NoWrite, now)
              /\ it' = it
    /\ UNCHANGED <<freed, released>>

\* tqdm_close(tqdm)
Close ==
  \E tm \in Later(now) :
    /\ ~freed
    /\ LET r == tqdm_close(t, tm)
       IN Called("close", r.t, r.out, tm)
    /\ UNCHANGED <<freed, it, released>>

\* tqdm_destroy(tqdm)
Destroy ==
  \E tm \in Later(now) :
    /\ ~freed
    /\ LET r == tqdm_destroy(t, tm)
       IN /\ Called("destroy", Freed, r.out, tm)
          /\ released' = released + r.release
    /\ freed' = TRUE
    /\ UNCHANGED it

\* tqdm_refresh(tqdm)
Refresh ==
  \E tm \in Later(now) :
    /\ ~freed
    /\ LET r == tqdm_refresh(t, tm)
       IN Called("refresh", r.t, r.out, tm)
    /\ UNCHANGED <<freed, it, released>>

\* tqdm_reset(tqdm, total)
ResetTo(total) ==
  \E tm \in Later(now) :
    /\ ~freed
    /\ Called("reset", tqdm_reset(t, total, tm), NoWrite, tm)
    /\ UNCHANGED <<freed, it, released>>

Reset == \E total \in Totals : ResetTo(total)

\* the pause operation of the design: the flag is set and the clock reading
\* kept as the start of the pause
Pause ==
  \E tm \in Later(now) :
    /\ ~freed /\ ~t.paused
    /\ Called("pause", [t EXCEPT !.paused = TRUE, !.pause_start = tm],
              NoWrite, tm)
    /\ UNCHANGED <<freed, it, released>>

\* tqdm_unpause(tqdm)
Unpause ==
  \E tm \in Later(now) :
    /\ ~freed
    /\ Called("unpause", tqdm_unpause(t, tm), NoWrite, tm)
    /\ UNCHANGED <<freed, it, released>>

\* tqdm_set_description_str(tqdm, desc, refresh)
SetDescription ==
  \E desc \in Strings, refresh \in BOOLEAN, tm \in Later(now) :
    /\ ~freed
    /\ LET r == tqdm_set_description_str(t, desc, refresh, tm)
       IN Called("set_description", r.t, r.out, tm)
    /\ UNCHANGED <<freed, it, released>>

\* tqdm_set_postfix_str(tqdm, postfix, refresh)
SetPostfixStr ==
  \E postfix \in Strings, refresh \in BOOLEAN, tm \in Later(now) :
    /\ ~freed
    /\ LET r == tqdm_set_postfix_str(t, postfix, refresh, tm)
       IN Called("set_postfix_str", r.t, r.out, tm)
    /\ UNCHANGED <<freed, it, released>>

\* tqdm_set_postfix(tqdm, list)
SetPostfix ==
  \E list \in PostfixLists :
    /\ ~freed
    /\ Called("set_postfix", tqdm_set_postfix(t, list), NoWrite, now)
    /\ UNCHANGED <<freed, it, released>>

\* tqdm_clear(tqdm)
Clear ==
  /\ ~freed
  /\ Called("clear", t, tqdm_clear(t), now)
  /\ UNCHANGED <<freed, it, released>>

\* tqdm_display(tqdm, msg, pos)
Display ==
  /\ ~freed
  /\ Called("display", t, tqdm_display(t), now)
  /\ UNCHANGED <<freed, it, released>>

\* the counting, iterating and closing operations
Next ==
  \/ Update \/ UpdateN \/ UpdateTo \/ HasNext \/ Next_ \/ Refresh \/ Reset
  \/ Close \/ Destroy

Spec == Init /\ [][Next]_vars

\* every operation, on a disabled instance
NextAll ==
  \/ Update \/ UpdateN \/ UpdateTo \/ HasNext \/ Next_ \/ Refresh \/ Reset
  \/ Close \/ Destroy \/ Unpause \/ SetDescription \/ SetPostfixStr
  \/ SetPostfix \/ Clear \/ Display

InitDisabled == Init /\ t.disable

SpecDisabled == InitDisabled /\ [][NextAll]_vars

\* every operation, on an enabled instance with both gates set
InitAll ==
  Init /\ ~t.disable /\ ~t.iterator_mode /\ t.leave
       /\ t.miniters = 2 /\ t.mininterval = 2

SpecAll == InitAll /\ [][NextAll]_vars

\* one caller running "while (tqdm_has_next(t)) tqdm_next(t)" over an array,
\* and pulling on after the end
InitLoop == Init /\ t.end # NULL
NextLoop == HasNext \/ Next_
SpecLoop == InitLoop /\ [][NextLoop]_vars

\* the constructor calls studied: the strings the caller gives, the
\* allocation that fails if any, the numeric fields and the environment
CtorInputs ==
  [ done : {FALSE},
    present : SUBSET Range(StringFields),
    fail : {"none"} \cup Range(AllocSites),
    mininterval : {0 - 1, 2, NaN},
    smoothing : {DefaultSmoothing, SmoothingOne + 1},
    unit_divisor : {0, DefaultDivisor},
    env : [ mininterval : {{}, {NaN}}, smoothing : {{}, {0 - 1}} ] ]

\* the caller's tqdm_params_t of a studied call
CtorParams(c) ==
  [ desc |-> IF "desc" \in c.present THEN "x" ELSE NoStr,
    postfix |-> IF "postfix" \in c.present THEN "x" ELSE NoStr,
    total |-> 0, leave |-> TRUE, miniters |-> 0, disable |-> FALSE,
    initial |-> 1, mininterval |-> c.mininterval,
    smoothing |-> c.smoothing, unit_divisor |-> c.unit_divisor ]

\* tqdm_create_with_params(NULL, NULL, 1, &params)
Create ==
  /\ ~ctor.done /\ freed
  /\ LET a == tqdm_create_allocs(ctor.present, ctor.fail)
     IN /\ ctor' = [ctor EXCEPT !.done = TRUE] @@ [ok |-> a.ok, allocs |-> a]
        /\ freed' = ~a.ok
        /\ t' = IF a.ok
                  THEN tqdm_create_with_params(NULL, NULL, 1,
                         tqdm_load_env_vars(CtorParams(ctor), ctor.env), now)
                  ELSE t
  /\ t0' = t'
  /\ UNCHANGED <<now, it, released, out, closing, pauses, ret, fault, got>>
  /\ UNCHANGED sidevars
  /\ UNCHANGED threadvars

\* before the constructor is called there is no instance
InitCreate ==
  /\ t = Freed
  /\ t0 = Freed
  /\ freed = TRUE
  /\ ctor \in CtorInputs
  /\ wlock = NoWriteLock
  /\ range = NoRange
  /\ fmt = NoFmt
  /\ Fresh

SpecCreate == InitCreate /\ [][Create]_vars

\* tqdm_destroy(NULL): returns at its first test
DestroyNull == UNCHANGED vars

\* what a tqdm_close run on released memory may write: nothing, when the
\* closed flag still reads as set or leave and disable read so; a final
\* line or the erase sequence otherwise
AfterFreeWrites == {NoWrite, <<"render", "nl">>, <<"nl">>, <<"erase">>}

\* tqdm_destroy(tqdm) on an instance a first tqdm_destroy has freed: the
\* closed flag, the strings, the adapter fields and the mutex are read
\* from released memory, and every pointer is passed to free a second
\* time.  The behaviour is undefined: the flag may read either way, the
\* adapter's destroy_func may or may not run again, or the allocator may
\* end the process (nothing more is written).
DestroyAgain ==
  \E w \in AfterFreeWrites, again \in {0, 1} :
    /\ freed /\ ~fault
    /\ fault' = TRUE
    /\ out' = w
    /\ closing' = closing \o w
    /\ released' = released + again
    /\ ret' = NoRet
    /\ UNCHANGED <<t, now, freed, it, t0, pauses, ctor, got>>
    /\ UNCHANGED sidevars
    /\ UNCHANGED threadvars

\* the end of an instance's life
NextDestroy == Update \/ Close \/ Destroy \/ DestroyAgain \/ DestroyNull

SpecDestroy == Init /\ [][NextDestroy]_vars

\* pausing and resuming an enabled, manually driven instance
NextPause ==
  Pause \/ Unpause \/ Update \/ Next_ \/ Refresh \/ Reset \/ Close

InitPause ==
  Init /\ ~t.disable /\ ~t.iterator_mode /\ t.end = NULL /\ t.leave
       /\ t.miniters = 0

SpecPause == InitPause /\ [][NextPause]_vars

(* ------------------------------------------- several threads: SpecUpdateMT *)
\* a mutex that excludes nobody
pthread_mutex_lock_open(holder) == TRUE

\* pthread_mutex_lock(&tqdm->lock) returns once no thread holds the mutex
pthread_mutex_lock(holder) == holder = NoThread

\* a step of thread th that writes w and leaves the instance as s; r is
\* what the call returns, if the step ends a call that returns a value
SteppedRet(th, label, s, w, tm, r) ==
  /\ pc' = [pc EXCEPT ![th] = label]
  /\ t' = s
  /\ out' = w
  /\ now' = tm
  /\ ret' = r
  /\ UNCHANGED <<freed, it, released, closing, t0, pauses, fault, ctor, got>>
  /\ UNCHANGED sidevars

Stepped(th, label, s, w, tm) == SteppedRet(th, label, s, w, tm, NoRet)

\* tqdm_update: the test of closed and disable, made before the mutex
UpdateEnter(th) ==
  /\ pc[th] = "idle" /\ calls[th] < MaxCalls
  /\ calls' = [calls EXCEPT ![th] = calls[th] + 1]
  /\ Stepped(th, IF tqdm_update_n_enters(t) THEN "update_lock" ELSE "idle",
             t, NoWrite, now)
  /\ UNCHANGED <<lock, reg>>

\* where a thread stands once it has the mutex
AfterLock(label) ==
  CASE label = "update_lock" -> "update_load"
    [] label = "update_to_lock" -> "update_to_cs"
    [] label = "next_lock" -> "next_cs"
    [] label = "reset_lock" -> "reset_cs"
    [] label = "set_description_lock" -> "set_description_cs"
    [] label = "refresh_lock" -> "refresh_cs"
    [] label = "close_lock" -> "close_cs"
AtLock == {"update_lock", "update_to_lock", "next_lock", "reset_lock",
           "set_description_lock", "refresh_lock", "close_lock"}

\* pthread_mutex_lock(&tqdm->lock) of any operation
Acquire(th) ==
  /\ pc[th] \in AtLock
  /\ pthread_mutex_lock(lock)
  /\ lock' = th
  /\ Stepped(th, AfterLock(pc[th]), t, NoWrite, now)
  /\ UNCHANGED <<reg, calls>>

\* tqdm->n += n, first half: n is loaded
UpdateLoad(th) ==
  /\ pc[th] = "update_load"
  /\ reg' = [reg EXCEPT ![th] = t.n]
  /\ Stepped(th, "update_store", t, NoWrite, now)
  /\ UNCHANGED <<lock, calls>>

\* tqdm->n += n, second half: the sum is stored; then the gates, the
\* render and pthread_mutex_unlock
UpdateStore(th) ==
  \E ta \in Later(now) : \E tb \in Soon(ta) : \E tc \in Soon(tb) :
    /\ pc[th] = "update_store"
    /\ LET r == tqdm_update_n_locked([t EXCEPT !.n = reg[th]], 1, ta, tb, tc)
       IN Stepped(th, "idle", r.t, r.out, tc)
    /\ lock' = IF lock = th THEN NoThread ELSE lock
    /\ UNCHANGED <<reg, calls>>

NextUpdateMT ==
  \E th \in Threads :
    UpdateEnter(th) \/ Acquire(th) \/ UpdateLoad(th) \/ UpdateStore(th)

SpecUpdateMT == Init /\ [][NextUpdateMT]_vars

(* ------------------------------------------------- several threads: SpecMT *)
\* a thread begins a call
Begin(th) ==
  /\ pc[th] = "idle" /\ calls[th] < MaxCalls
  /\ calls' = [calls EXCEPT ![th] = calls[th] + 1]

\* pthread_mutex_unlock(&tqdm->lock)
Release(th) == lock' = IF lock = th THEN NoThread ELSE lock

\* a string that was freed and not yet replaced
Dangling == "freed"

\* tqdm_update_to: the test of closed and disable, made before the mutex
UpdateToEnter(th) ==
  /\ Begin(th)
  /\ IF tqdm_update_n_enters(t)
       THEN Stepped(th, "update_to_lock", t, NoWrite, now)
       ELSE SteppedRet(th, "idle", t, NoWrite, now, Returned(FALSE))
  /\ UNCHANGED <<lock, reg>>

\* tqdm_update_to under the mutex, to pthread_mutex_unlock
UpdateToCS(th) ==
  \E v \in 0..MaxN, ta \in Later(now) : \E tb \in Soon(ta) :
  \E tc \in Soon(tb) :
    /\ pc[th] = "update_to_cs"
    /\ LET r == tqdm_update_to_locked(t, v, ta, tb, tc)
       IN SteppedRet(th, "idle", r.t, r.out, tc, Returned(r.ret))
    /\ Release(th)
    /\ UNCHANGED <<reg, calls>>

\* tqdm_next: tqdm_has_next, called before the mutex
NextEnter(th) ==
  /\ Begin(th)
  /\ Stepped(th, IF tqdm_has_next(t, it) THEN "next_lock" ELSE "idle",
             t, NoWrite, now)
  /\ UNCHANGED <<lock, reg>>

\* tqdm_next under the mutex, to pthread_mutex_unlock
NextCS(th) ==
  \E ta \in Later(now) : \E tb \in Soon(ta) : \E tc \in Soon(tb) :
    /\ pc[th] = "next_cs"
    /\ LET r == tqdm_next_locked(t, it, ta, tb, tc)
       IN /\ pc' = [pc EXCEPT ![th] = "idle"]
          /\ t' = r.t /\ out' = r.out /\ it' = r.it /\ now' = tc
          /\ got' = Append(got, r.ret)
    /\ Release(th)
    /\ ret' = NoRet
    /\ UNCHANGED <<freed, released, closing, t0, reg, calls, pauses, fault,
                   ctor>>
    /\ UNCHANGED sidevars

\* tqdm_reset: straight to the mutex
ResetEnter(th) ==
  /\ Begin(th)
  /\ Stepped(th, "reset_lock", t, NoWrite, now)
  /\ UNCHANGED <<lock, reg>>

\* tqdm_reset under the mutex
ResetCS(th) ==
  \E total \in Totals, tm \in Later(now) :
    /\ pc[th] = "reset_cs"
    /\ Stepped(th, "idle", tqdm_reset(t, total, tm), NoWrite, tm)
    /\ Release(th)
    /\ UNCHANGED <<reg, calls>>

\* tqdm_set_description_str: straight to the mutex
SetDescriptionEnter(th) ==
  /\ Begin(th)
  /\ Stepped(th, "set_description_lock", t, NoWrite, now)
  /\ UNCHANGED <<lock, reg>>

\* tqdm_set_description_str under the mutex
SetDescriptionCS(th) ==
  \E refresh \in BOOLEAN, tm \in Later(now) :
    /\ pc[th] = "set_description_cs"
    /\ LET r == tqdm_set_description_str(t, "x", refresh, tm)
       IN Stepped(th, "idle", r.t, r.out, tm)
    /\ Release(th)
    /\ UNCHANGED <<reg, calls>>

\* tqdm_refresh: the test of closed and disable, made before the mutex
RefreshEnter(th) ==
  /\ Begin(th)
  /\ Stepped(th, IF tqdm_refresh_enters(t) THEN "refresh_lock" ELSE "idle",
             t, NoWrite, now)
  /\ UNCHANGED <<lock, reg>>

\* tqdm_refresh under the mutex
RefreshCS(th) ==
  \E tm \in Later(now) :
    /\ pc[th] = "refresh_cs"
    /\ LET r == tqdm_print_progress(t, tm)
       IN Stepped(th, "idle", r.t, r.out, tm)
    /\ Release(th)
    /\ UNCHANGED <<reg, calls>>

\* tqdm_close: the test of closed, made before the mutex
CloseEnter(th) ==
  /\ Begin(th)
  /\ Stepped(th, IF t.closed THEN "idle" ELSE "close_lock", t, NoWrite, now)
  /\ UNCHANGED <<lock, reg>>

\* tqdm_close under the mutex
CloseCS(th) ==
  \E tm \in Later(now) :
    /\ pc[th] = "close_cs"
    /\ LET r == tqdm_close_locked(t, tm)
       IN /\ pc' = [pc EXCEPT ![th] = "idle"]
          /\ t' = r.t /\ out' = r.out /\ now' = tm
          /\ closing' = closing \o r.out
    /\ Release(th)
    /\ ret' = NoRet
    /\ UNCHANGED <<freed, it, released, t0, reg, calls, pauses, fault, ctor,
                   got>>
    /\ UNCHANGED sidevars

\* tqdm_set_postfix_str, no mutex: free(tqdm->params.postfix)
SetPostfixStrFree(th) ==
  /\ Begin(th)
  /\ Stepped(th, "set_postfix_str_dup",
             IF t.postfix # NoStr THEN [t EXCEPT !.postfix = Dangling] ELSE t,
             NoWrite, now)
  /\ UNCHANGED <<lock, reg>>

\* tqdm_set_postfix_str, no mutex: the new string is stored; with refresh
\* the call goes on into tqdm_refresh
SetPostfixStrDup(th) ==
  \E postfix \in Strings, refresh \in BOOLEAN :
    /\ pc[th] = "set_postfix_str_dup"
    /\ LET s1 == [t EXCEPT !.postfix = postfix]
       IN Stepped(th, IF refresh /\ tqdm_refresh_enters(s1)
                       THEN "refresh_lock" ELSE "idle", s1, NoWrite, now)
    /\ UNCHANGED <<lock, reg, calls>>

\* tqdm_set_postfix, no mutex: the old string is freed and the pointer
\* cleared
SetPostfixFree(th) ==
  /\ Begin(th)
  /\ Stepped(th, "set_postfix_format", [t EXCEPT !.postfix = NoStr],
             NoWrite, now)
  /\ UNCHANGED <<lock, reg>>

\* tqdm_set_postfix, no mutex: postfix_format(list) is stored
SetPostfixFormat(th) ==
  \E list \in PostfixLists :
    /\ pc[th] = "set_postfix_format"
    /\ Stepped(th, "idle", tqdm_set_postfix(t, list), NoWrite, now)
    /\ UNCHANGED <<lock, reg, calls>>

\* tqdm_unpause, no mutex
UnpauseCall(th) ==
  \E tm \in Later(now) :
    /\ Begin(th)
    /\ Stepped(th, "idle", tqdm_unpause(t, tm), NoWrite, tm)
    /\ UNCHANGED <<lock, reg>>

NextMT ==
  \E th \in Threads :
    \/ UpdateEnter(th) \/ Acquire(th) \/ UpdateLoad(th) \/ UpdateStore(th)
    \/ UpdateToEnter(th) \/ UpdateToCS(th)
    \/ NextEnter(th) \/ NextCS(th)
    \/ ResetEnter(th) \/ ResetCS(th)
    \/ SetDescriptionEnter(th) \/ SetDescriptionCS(th)
    \/ RefreshEnter(th) \/ RefreshCS(th)
    \/ CloseEnter(th) \/ CloseCS(th)
    \/ SetPostfixStrFree(th) \/ SetPostfixStrDup(th)
    \/ SetPostfixFree(th) \/ SetPostfixFormat(th)
    \/ UnpauseCall(th)

\* the instances the threads share: automatic threshold, the longer interval
InitMT ==
  Init /\ t.iterator_mode /\ ~t.disable /\ t.mininterval = 2

SpecMT == InitMT /\ [][NextMT]_vars

(* ------------------------- several threads over one array: SpecLoopMT *)
\* each thread runs  while (tqdm_has_next(tqdm)) tqdm_next(tqdm);
NextLoopMT ==
  \/ HasNext
  \/ \E th \in Threads : NextEnter(th) \/ Acquire(th) \/ NextCS(th)

SpecLoopMT == InitLoop /\ [][NextLoopMT]_vars

(* -------------------------------------------- range iterator: SpecRange *)
\* the least and the greatest int
IntMin == 0 - IntMod \div 2
IntMax == IntMod \div 2 - 1
\* the loop over a range is followed for at most MaxYield values
MaxYield == 4

\* range_create_with_step; start is kept beside the struct for reference
range_create_with_step(start, end, step) ==
  [start |-> start, current |-> start, total |-> end, step |-> step]

\* range_has_next
range_has_next(r) ==
  IF r.step > 0 THEN r.current < r.total ELSE r.current > r.total

\* what "range->current += range->step" can leave in current: the sum, or,
\* when the sum is no int (signed overflow), the wrapped sum or a trap
RangeSums(r) ==
  IF r.current + r.step \in IntMin..IntMax
    THEN {[current |-> r.current + r.step, fault |-> FALSE]}
    ELSE {[current |-> ToInt(r.current + r.step), fault |-> FALSE],
          [current |-> r.current, fault |-> TRUE]}

\* range_has_next(range): reads the range, changes nothing
RangeHasNext ==
  /\ ~fault
  /\ range_has_next(range) \in BOOLEAN
  /\ UNCHANGED vars

\* range_next(range), the value going to the loop variable
RangeNext ==
  /\ ~fault
  /\ IF range_has_next(range)
       THEN /\ Len(got) < MaxYield
            /\ \E sum \in RangeSums(range) :
                 /\ range' = [range EXCEPT !.current = sum.current]
                 /\ fault' = sum.fault
            /\ got' = Append(got, range.current)
       ELSE UNCHANGED <<range, fault, got>>
  /\ UNCHANGED <<t, now, freed, it, released, out, closing, t0, pauses, ret,
                 ctor, wlock, fmt>>
  /\ UNCHANGED threadvars

NextRange == RangeHasNext \/ RangeNext

\* the ranges studied: short ones, long ones, and ones that end at INT_MAX
\* or at INT_MIN
RangeStarts == {0 - 1, 0, 1, 3, IntMax - 1, IntMin + 1}
RangeEnds == {0 - 2, 0, 2, 4, IntMax, IntMin}
RangeSteps == {0 - 2, 0 - 1, 1, 2, 3}

InitRange ==
  /\ t = Freed
  /\ t0 = Freed
  /\ freed = TRUE
  /\ ctor = NoCtor
  /\ wlock = NoWriteLock
  /\ fmt = NoFmt
  /\ range \in {range_create_with_step(start, end, step) :
                  start \in RangeStarts, end \in RangeEnds,
                  step \in RangeSteps}
  /\ Fresh

SpecRange == InitRange /\ [][NextRange]_vars

\* ceil(a / b) for b > 0, and 0 when a <= 0
CeilDiv(a, b) == IF a <= 0 THEN 0 ELSE (a + b - 1) \div b
\* the number of values of the range r
RangeCount(r) ==
  IF r.step > 0 THEN CeilDiv(r.total - r.start, r.step)
  ELSE CeilDiv(r.start - r.total, 0 - r.step)

(* ------------------------------------------- the formatter: SpecFormat *)
\* the largest n and total handed to tqdm_format_meter
MaxFmtN == 24
\* the terminal widths: with no description and no postfix they give the
\* bar widths 10, 1, 3, 50 and 100
FmtCols == {0, 51, 53, 100, 151}
\* the lengths of the description and of the postfix
PrefixLens == {0, 3}
PostfixLens == {0, 2}

\* tqdm_format_meter(n, total, elapsed, ncols, NULL, ascii, ...)
Format ==
  /\ ~fmt.done
  /\ fmt' = [fmt EXCEPT !.done = TRUE] @@
            [meter |-> tqdm_format_meter(fmt.n, fmt.total, fmt.ncols,
                                         fmt.ascii, fmt.prefix, fmt.postfix)]
  /\ UNCHANGED <<t, now, freed, it, released, out, closing, t0, pauses, ret,
                 fault, ctor, got, wlock, range>>
  /\ UNCHANGED threadvars

InitFormat ==
  /\ t = Freed
  /\ t0 = Freed
  /\ freed = TRUE
  /\ ctor = NoCtor
  /\ wlock = NoWriteLock
  /\ range = NoRange
  /\ fmt \in [done : {FALSE}, n : 0..MaxFmtN, total : 0..MaxFmtN,
               ncols : FmtCols, ascii : BOOLEAN,
               prefix : PrefixLens, postfix : PostfixLens]
  /\ Fresh

SpecFormat == InitFormat /\ [][Format]_vars

(* ---------------------------------------- several threads: SpecWrite *)
\* the mutexes tqdm_global_lock can point to: default_lock and one the
\* caller handed to tqdm_set_lock
Locks == {"default", "custom"}

\* a tqdm_write that unlocks before it flushes
tqdm_write_unlocks_early(nolock) ==
  IF nolock
    THEN <<"write_get_ret", "write_fprintf", "write_fflush">>
    ELSE <<"write_get_ret", "write_lock", "write_fprintf", "write_unlock",
           "write_fflush">>

\* tqdm_write: the steps of a call after the test in tqdm_get_lock, in
\* program order
tqdm_write(nolock) ==
  IF nolock
    THEN <<"write_get_ret", "write_fprintf", "write_fflush">>
    ELSE <<"write_get_ret", "write_lock", "write_fprintf", "write_fflush",
           "write_unlock">>

\* the step that follows label in a call, "idle" after the last
AfterWrite(label, nolock) ==
  LET steps == tqdm_write(nolock)
      i == CHOOSE k \in 1..Len(steps) : steps[k] = label
  IN IF i < Len(steps) THEN steps[i + 1] ELSE "idle"

\* a step of thread th in tqdm_write or tqdm_set_lock: it writes w and
\* leaves the lock state as wl
WriteStepped(th, label, w, wl) ==
  /\ pc' = [pc EXCEPT ![th] = label]
  /\ out' = w
  /\ wlock' = wl
  /\ UNCHANGED <<t, now, freed, it, released, closing, t0, lock, reg, pauses,
                 ret, ctor, got, range, fmt>>

\* tqdm_write enters tqdm_get_lock: a NULL tqdm_global_lock is set to
\* &default_lock
WriteBegin(th) ==
  \E nolock \in BOOLEAN :
    /\ ~fault
    /\ Begin(th)
    /\ WriteStepped(th, tqdm_write(nolock)[1], NoWrite,
                    [wlock EXCEPT !.global = IF @ = "NULL" THEN "default"
                                             ELSE @,
                                  !.nolock[th] = nolock])
    /\ UNCHANGED fault

\* tqdm_get_lock returns tqdm_global_lock as it is now
WriteGetRet(th) ==
  /\ ~fault
  /\ pc[th] = "write_get_ret"
  /\ WriteStepped(th, AfterWrite(pc[th], wlock.nolock[th]), NoWrite,
                  [wlock EXCEPT !.local[th] = wlock.global])
  /\ UNCHANGED <<calls, fault>>

\* pthread_mutex_lock(lock); with a NULL pointer the process faults
WriteLock(th) ==
  /\ ~fault
  /\ pc[th] = "write_lock"
  /\ IF wlock.local[th] = "NULL"
       THEN /\ fault' = TRUE
            /\ WriteStepped(th, "write_fault", NoWrite, wlock)
       ELSE /\ pthread_mutex_lock(wlock.holder[wlock.local[th]])
            /\ fault' = fault
            /\ WriteStepped(th, AfterWrite(pc[th], wlock.nolock[th]), NoWrite,
                            [wlock EXCEPT !.holder[wlock.local[th]] = th])
  /\ UNCHANGED calls

\* fprintf(file, "\r\033[K%s%s", s, end)
WriteFprintf(th) ==
  /\ ~fault
  /\ pc[th] = "write_fprintf"
  /\ WriteStepped(th, AfterWrite(pc[th], wlock.nolock[th]), <<"write">>,
                  wlock)
  /\ UNCHANGED <<calls, fault>>

\* fflush(file)
WriteFflush(th) ==
  /\ ~fault
  /\ pc[th] = "write_fflush"
  /\ WriteStepped(th, AfterWrite(pc[th], wlock.nolock[th]), NoWrite, wlock)
  /\ UNCHANGED <<calls, fault>>

\* pthread_mutex_unlock(lock)
WriteUnlock(th) ==
  /\ ~fault
  /\ pc[th] = "write_unlock"
  /\ WriteStepped(th, AfterWrite(pc[th], wlock.nolock[th]), NoWrite,
                  [wlock EXCEPT !.holder[wlock.local[th]] =
                                   IF @ = th THEN NoThread ELSE @])
  /\ UNCHANGED <<calls, fault>>

\* tqdm_set_lock(lock), with a mutex of the caller or NULL
SetLock(th) ==
  \E l \in {"NULL", "custom"} :
    /\ ~fault
    /\ Begin(th)
    /\ WriteStepped(th, "idle", NoWrite, [wlock EXCEPT !.global = l])
    /\ UNCHANGED fault

NextWrite ==
  \E th \in Threads :
    \/ WriteBegin(th) \/ WriteGetRet(th) \/ WriteLock(th)
    \/ WriteFprintf(th) \/ WriteFflush(th) \/ WriteUnlock(th)
    \/ SetLock(th)

\* no instance is involved; tqdm_global_lock is NULL and no mutex is held
InitWrite ==
  /\ t = Freed
  /\ t0 = Freed
  /\ freed = TRUE
  /\ ctor = NoCtor
  /\ range = NoRange
  /\ fmt = NoFmt
  /\ wlock = [global |-> "NULL", holder |-> [l \in Locks |-> NoThread],
              local |-> [th \in Threads |-> "NULL"],
              nolock |-> [th \in Threads |-> FALSE]]
  /\ Fresh

SpecWrite == InitWrite /\ [][NextWrite]_vars

(* ------------------------------------ external-write mode: SpecExternal *)
\* tqdm_external_write_mode(file, nolock) up to its pthread_mutex_lock:
\* lock_acquired = false; unless nolock, tqdm_get_lock() sets a NULL
\* tqdm_global_lock to &default_lock and returns the pointer
ExternalWriteMode(th) ==
  \E nolock \in BOOLEAN :
    /\ Begin(th)
    /\ LET g == IF wlock.global = "NULL" THEN "default" ELSE wlock.global
       IN IF nolock
            THEN WriteStepped(th, "ext_in", NoWrite,
                              [wlock EXCEPT !.acquired[th] = FALSE])
            ELSE WriteStepped(th, "ext_lock", NoWrite,
                              [wlock EXCEPT !.global = g, !.local[th] = g,
                                            !.acquired[th] = FALSE])
    /\ UNCHANGED fault

\* tqdm_external_write_mode: pthread_mutex_lock returns and lock_acquired
\* is set
ExternalWriteLock(th) ==
  /\ pc[th] = "ext_lock"
  /\ pthread_mutex_lock(wlock.holder[wlock.local[th]])
  /\ WriteStepped(th, "ext_in", NoWrite,
                  [wlock EXCEPT !.holder[wlock.local[th]] = th,
                                !.acquired[th] = TRUE])
  /\ UNCHANGED <<calls, fault>>

\* tqdm_external_write_mode_exit(ctx): with lock_acquired it unlocks what
\* tqdm_get_lock() returns now.  Unlocking a mutex the caller does not hold
\* is undefined: the mutex is left as it is or is released from its holder
ExternalWriteModeExit(th) ==
  /\ pc[th] = "ext_in"
  /\ LET g == IF wlock.global = "NULL" THEN "default" ELSE wlock.global
     IN IF ~wlock.acquired[th]
          THEN WriteStepped(th, "idle", NoWrite, wlock)
        ELSE IF wlock.holder[g] = th
          THEN WriteStepped(th, "idle", NoWrite,
                 [wlock EXCEPT !.global = g, !.holder[g] = NoThread,
                               !.acquired[th] = FALSE])
        ELSE \E h \in {wlock.holder[g], NoThread} :
               WriteStepped(th, "idle", NoWrite,
                 [wlock EXCEPT !.global = g, !.holder[g] = h,
                               !.acquired[th] = FALSE, !.unowned = TRUE])
  /\ UNCHANGED <<calls, fault>>

\* tqdm_set_lock(lock), called inside or outside a context
ExternalSetLock(th) ==
  \E l \in {"NULL", "custom"} :
    /\ pc[th] \in {"idle", "ext_in"} /\ calls[th] < MaxCalls
    /\ calls' = [calls EXCEPT ![th] = calls[th] + 1]
    /\ WriteStepped(th, pc[th], NoWrite, [wlock EXCEPT !.global = l])
    /\ UNCHANGED fault

NextExternal ==
  \E th \in Threads :
    \/ ExternalWriteMode(th) \/ ExternalWriteLock(th)
    \/ ExternalWriteModeExit(th) \/ ExternalSetLock(th)

\* no context is open, tqdm_global_lock is NULL and no mutex is held
InitExternal ==
  /\ t = Freed
  /\ t0 = Freed
  /\ freed = TRUE
  /\ ctor = NoCtor
  /\ range = NoRange
  /\ fmt = NoFmt
  /\ wlock = [global |-> "NULL", holder |-> [l \in Locks |-> NoThread],
              local |-> [th \in Threads |-> "NULL"],
              acquired |-> [th \in Threads |-> FALSE], unowned |-> FALSE]
  /\ Fresh

SpecExternal == InitExternal /\ [][NextExternal]_vars

\* the steps of tqdm_write from the fprintf to the end of the fflush
InWrite == {"write_fprintf", "write_fflush"}

(* ================================================================ claims *)
Open(s) == ~s.closed /\ ~s.disable
Render == <<"render">>
\* the operations that advance the count: advance, set-to, pull-next
Advancing == Update \/ UpdateN \/ UpdateTo \/ Next_

\* C1: every tqdm_update call on an open, enabled instance adds exactly one
\* to n, whether the call rendered or not and whatever miniters and
\* mininterval are; so k such calls add k
C1_AdvanceAddsOne ==
  [][(Update /\ Open(t)) => t'.n = t.n + 1]_vars

\* C1 witness: an advance by one went by without a render, after the
\* automatic threshold had been raised to 2 by an earlier render
C1_Witness ==
  /\ ~freed /\ Open(t) /\ t0.miniters = 0 /\ t.miniters = 2
  /\ t.n = t.last_print_count + 1 /\ t.count = 0 /\ out = NoWrite

\* C2: when every thread has made its MaxCalls calls of tqdm_update on an
\* open, enabled instance, n is the initial value plus NThreads * MaxCalls
C2_NoLostUpdate ==
  (Open(t0) /\ \A th \in Threads : pc[th] = "idle" /\ calls[th] = MaxCalls)
    => t.n = t0.initial + NThreads * MaxCalls

\* C2 witness: every thread is in its last call; one of them has loaded n
\* under the mutex, all the others wait for the mutex, and every earlier
\* call has been counted
C2_Witness ==
  \E a \in Threads :
    /\ Open(t0) /\ \A th \in Threads : calls[th] = MaxCalls
    /\ pc[a] = "update_load" /\ lock = a
    /\ \A th \in Threads \ {a} : pc[th] = "update_lock"
    /\ t.n = t0.initial + NThreads * (MaxCalls - 1)

\* C3: once the instance is closed, advance, set-to, pull-next and reset
\* leave n unchanged
C3_ClosedCountFrozen ==
  [][((Advancing \/ Reset) /\ ~freed /\ t.closed) => t'.n = t.n]_vars

\* C4: on an instance constructed disabled, n stays at its initial value
\* under advance, set-to and pull-next
C4_DisabledCountFrozen ==
  [][(Advancing /\ t.disable) => t'.n = t.n]_vars

\* C5: a disabled instance never writes to its sink: no render, no erase
\* sequence, no newline, whatever operations are called
C5_DisabledNeverWrites ==
  t0.disable => (out = NoWrite /\ closing = NoWrite)

\* C5 witness: a disabled instance was pulled, described, annotated and
\* closed with persistence off
C5_Witness ==
  /\ ~freed /\ t.disable /\ t.closed /\ ~t.leave
  /\ t.desc = "x" /\ t.postfix = "k=v" /\ t.count > 0

\* C6 as claimed: every advance, set-to or pull-next on an open, enabled
\* instance that leaves total > 0 and n >= total renders in that call
C6_CompleteAlwaysRenders ==
  [][(Advancing /\ Open(t) /\ IsComplete(t')) => out' = Render]_vars

\* C6 amended: every advance, set-to, or pull-next that yields an element,
\* on an open, enabled instance that leaves total > 0 and n >= total renders
\* in that call, whatever miniters, mininterval and the time since the last
\* render are
C6_CompleteRendersWhenAdvanced ==
  [][((Update \/ UpdateN \/ UpdateTo \/ (Next_ /\ tqdm_has_next(t, it)))
       /\ Open(t) /\ IsComplete(t')) => out' = Render]_vars

\* C6 witness: the instance is complete and rendered although both gates
\* were shut (no time has passed since the last render, miniters not met)
C6_Witness ==
  /\ ~freed /\ Open(t) /\ IsComplete(t) /\ out = Render
  /\ t.mininterval > 0 /\ t.miniters > t.n /\ t.last_print_time = t.start_time

\* C7: close on a closed instance changes nothing and writes nothing; with
\* persistence on, all the close and destroy calls together write one final
\* render and one newline
C7_CloseIdempotent ==
  /\ [][(Close /\ t.closed) => (t' = t /\ out' = NoWrite
                                       /\ closing' = closing)]_vars
  /\ []((t.closed /\ t0.leave /\ ~t0.disable)
          => closing = <<"render", "nl">>)

\* C7 witness: a persistent instance was closed, closed again and destroyed
C7_Witness ==
  /\ freed /\ t0.leave /\ ~t0.disable
  /\ out = NoWrite /\ closing = <<"render", "nl">>

\* C8: the first close of an open, enabled instance sets closed; with leave
\* it writes a render, whatever the gates say, then a newline; without
\* leave it writes the erase sequence only
C8_FirstClose ==
  [][(Close /\ Open(t)) =>
       /\ t'.closed
       /\ out' = IF t.leave THEN <<"render", "nl">> ELSE <<"erase">>]_vars

\* C8 witness: closed with persistence while both gates were shut
C8_Witness ==
  /\ ~freed /\ t.closed /\ out = <<"render", "nl">>
  /\ t.miniters = 2 /\ t.mininterval = 2
  /\ t.last_print_time = t.start_time /\ t.n = t.initial

\* C9: closing an instance in adapter mode invokes the adapter's release,
\* and all the close and destroy calls together invoke it exactly once
C9_CloseReleasesOnce ==
  (t0.iterator_mode /\ t.closed) => released = 1

\* C10: every step of a call that changes the instance or writes to its
\* sink is taken by the thread that holds the instance's mutex
C10_MutationsUnderLock ==
  [][\A th \in Threads :
       (pc'[th] # pc[th] /\ (t' # t \/ out' # NoWrite)) => lock = th]_vars

\* C11: once a pause has ended the cumulative paused time is the summed
\* length of the pauses, a render at any later clock reading shows the
\* wall-clock time since the start less that sum and the rate over it; and
\* tqdm_unpause on an instance that is not paused changes nothing
C11_PauseExcluded ==
  /\ []((~freed /\ ~pauses.on) =>
          /\ ~t.paused /\ t.total_pause_time = pauses.total
          /\ \A tm \in Later(now) :
               /\ Elapsed(t, tm) = (tm - t.start_time) - pauses.total
               /\ Rate(t, tm) \in {<<t.n, (tm - t.start_time) - pauses.total>>,
                                   <<0, 1>>})
  /\ [][(Unpause /\ ~t.paused) => (t' = t /\ out' = NoWrite)]_vars

\* C11 witness: a render after a pause of positive length has ended
C11_Witness ==
  /\ ~freed /\ ~pauses.on /\ pauses.total > 0
  /\ out = Render /\ t.last_print_time > t.start_time + pauses.total

\* C12: tqdm_reset(T), called in any state, sets n and the last-render
\* count to the configured initial value, zeroes the processed-item counter
\* and the cumulative paused time and clears the paused flag; total becomes
\* T when T > 0 and stays as it was when T = 0
C12_ResetReinitialises ==
  [][\A T \in Totals :
       ResetTo(T) =>
         /\ t'.n = t.initial /\ t'.last_print_count = t.initial
         /\ t'.count = 0 /\ t'.total_pause_time = 0 /\ ~t'.paused
         /\ t'.total = IF T > 0 THEN T ELSE t.total]_vars

\* C12 witness: a closed instance that had been pulled from was reset at a
\* later time, with a new total
C12_Witness ==
  /\ ~freed /\ t.closed /\ t.current # NULL /\ t.start_time > 0
  /\ t.n = t.initial /\ t.last_print_count = t.initial /\ t.count = 0
  /\ t0.total = 0 /\ t.total = 2

\* C13: tqdm_update_to(v) on an open, enabled instance sets n to exactly v,
\* also when v is below the current n; a second tqdm_update_to(v) made
\* directly after it computes delta 0 and leaves n at v
C13_SetToAbsolute ==
  [][\A v \in 0..MaxN :
       (UpdateToV(v) /\ Open(t)) =>
         /\ t'.n = v
         /\ tqdm_update_n_enters(t') /\ update_to_delta(t', v) = 0
         /\ \A ta \in Later(now') : \A tb \in Soon(ta) : \A tc \in Soon(tb) :
              tqdm_update_to_locked(t', v, ta, tb, tc).t.n = v]_vars

\* C13 witness: a set-to has lowered n below the count of the last render
C13_Witness ==
  /\ ~freed /\ Open(t) /\ ret = Returned(FALSE) /\ t.n < t.last_print_count

\* C14: tqdm_update_to returns true exactly when the call wrote a render,
\* and on a closed or disabled instance it returns false and changes
\* nothing, also when the instance was closed by another thread after the
\* call had tested the closed flag
C14_ReturnsWhetherRendered ==
  /\ [](ret # NoRet => ret = Returned(out = Render))
  /\ [][\A th \in Threads :
          ((UpdateToEnter(th) \/ UpdateToCS(th)) /\ (t.closed \/ t.disable))
            => (t' = t /\ ret' = Returned(FALSE))]_vars

\* C15: tqdm_refresh on an open, enabled instance writes one render
\* whatever the count and time gates say; on a closed or disabled instance
\* it writes nothing and changes nothing
C15_RefreshForces ==
  [][Refresh => IF Open(t) THEN out' = Render
                ELSE t' = t /\ out' = NoWrite]_vars

\* C15 witness: a render of an instance that has not advanced, written
\* before the minimum interval had passed and below the count threshold
C15_Witness ==
  /\ ~freed /\ Open(t) /\ out = Render
  /\ t.total = 0 /\ t.miniters = 2 /\ t.mininterval = 2
  /\ t.n = t.initial /\ t.start_time = 0 /\ t.last_print_time = 1

\* C16: tqdm_destroy is safe in every state: on an open instance it closes
\* first, and a second tqdm_destroy of the same instance does nothing and
\* neither reads nor frees what the first one released
C16_DestroyAlwaysSafe ==
  [][/\ (Destroy /\ ~t.closed) =>
          /\ freed'
          /\ out' \in {tqdm_close_locked(t, tm).out : tm \in Later(now)}
     /\ DestroyAgain =>
          /\ ~fault' /\ out' = NoWrite
          /\ released' = released /\ closing' = closing]_vars

C18_TotalOnlyByReset ==
  /\ [](\A p \in Params :
          /\ tqdm_create_with_params(NULL, NULL, 1, p, 0).total = p.total
          /\ \A k \in 1..(ArraySize + 1) :
               tqdm_create_with_params(BaseAddr, BaseAddr + k * ElemSize,
                                       ElemSize, p, 0).total
                 = IF p.total = 0 THEN k ELSE p.total)
  /\ [][(~freed' /\ t'.total # t.total) =>
          \E T \in Totals \ {0} : ResetTo(T) /\ t'.total = T]_vars

\* C18 witness: an array instance whose total came from the bounds has
\* been pulled, described, annotated, reset with 0 and closed, and total
\* is what it was
C18_Witness ==
  /\ ~freed /\ t.closed /\ t.desc = "x" /\ t.postfix = "k=v"
  /\ t.current # t0.current /\ t.count = 0 /\ t.start_time > 0
  /\ t0.end # NULL /\ t.total = ArraySize /\ t.total = t0.total

\* C19: a constructed instance has unit_divisor > 0, mininterval >= 0 and
\* smoothing in [0,1], whatever the caller's parameters and the
\* environment variables were
C19_ConfigurationClamped ==
  (ctor.done /\ ctor.ok) =>
     /\ FloatGt(t.unit_divisor, 0)
     /\ FloatGe(t.mininterval, 0)
     /\ FloatGe(t.smoothing, 0) /\ FloatLe(t.smoothing, SmoothingOne)

\* C20: every render written to the sink starts with carriage return
\* followed by the line-clear escape and contains no newline
C20_RenderClearsLine ==
  \A i \in DOMAIN out :
     out[i] = "render" =>
        LET b == SinkBytes(out[i])
        IN /\ Len(b) >= 2 /\ b[1] = "CR" /\ b[2] = "EL"
           /\ \A j \in DOMAIN b : b[j] # "LF"

\* C21: tqdm_has_next is false on a closed instance; on an open one it is
\* the adapter's answer in adapter mode, "cursor before end" in array mode,
\* "n < total" with only a total, and true with no bound at all
C21_HasNextByMode ==
  ~freed =>
    LET more == tqdm_has_next(t, it)
    IN /\ t.closed => ~more
       /\ (~t.closed /\ t.iterator_mode) => (more <=> has_next_func(it))
       /\ (~t.closed /\ ~t.iterator_mode /\ t.end # NULL)
             => (more <=> t.current < t.end)
       /\ (~t.closed /\ ~t.iterator_mode /\ t.end = NULL /\ t.total > 0)
             => (more <=> t.n < t.total)
       /\ (~t.closed /\ ~t.iterator_mode /\ t.end = NULL /\ t.total = 0)
             => more

\* C21 witness: an array instance closed in the middle of the array, where
\* the cursor is before the end and tqdm_has_next is false
C21_Witness ==
  /\ ~freed /\ t.closed /\ t.end # NULL
  /\ t.current > BaseAddr /\ t.current < t.end
  /\ ~tqdm_has_next(t, it)

\* C22: the loop over an array of ArraySize elements receives the elements
\* in array order, each once; n is initial plus and count is the number
\* received; tqdm_has_next turns false only after all ArraySize elements,
\* and a tqdm_next made then changes nothing and hands over no element
C22_ArrayLoopInOrder ==
  /\ [](/\ got = [k \in 1..Len(got) |-> BaseAddr + (k - 1) * ElemSize]
        /\ Len(got) <= ArraySize
        /\ t.count = Len(got)
        /\ t.n = t.initial + Len(got)
        /\ tqdm_has_next(t, it) <=> Len(got) < ArraySize)
  /\ [][(Next_ /\ ~tqdm_has_next(t, it))
          => (t' = t /\ out' = NoWrite /\ got' = got)]_vars

\* C22 witness: all elements were received, the last pull rendered, and a
\* further tqdm_next returned NULL
C22_Witness ==
  /\ ~freed /\ ~tqdm_has_next(t, it) /\ ~t.closed
  /\ got = <<BaseAddr, BaseAddr + ElemSize>> \o
           [k \in 1..(ArraySize - 2) |-> BaseAddr + (k + 1) * ElemSize]
  /\ t.n = t.initial + ArraySize /\ t.count = ArraySize
  /\ t.last_print_count = t.n /\ out = NoWrite

\* C23 as stated: a tqdm_write that does not bypass the lock holds the
\* process-wide lock from before its fprintf to after its fflush, so no
\* two such writes of different threads are ever both between those points
C23_WritesNeverOverlap ==
  \A th1, th2 \in Threads :
     (th1 # th2 /\ ~wlock.nolock[th1] /\ ~wlock.nolock[th2])
       => ~(pc[th1] \in InWrite /\ pc[th2] \in InWrite)

\* C23, amended: a tqdm_write that does not bypass the lock holds the mutex
\* tqdm_get_lock gave it from before its fprintf to after its fflush and
\* holds none when it has returned; two such writes that were given the
\* same mutex never overlap; a write with the bypass flag neither acquires
\* nor releases a mutex
C23_WriteHoldsItsLock ==
  /\ [](\A th \in Threads :
          /\ (pc[th] \in InWrite /\ ~wlock.nolock[th])
                => /\ wlock.local[th] \in Locks
                   /\ wlock.holder[wlock.local[th]] = th
          /\ pc[th] = "idle" => \A l \in Locks : wlock.holder[l] # th)
  /\ [](\A th1, th2 \in Threads :
          (/\ th1 # th2 /\ ~wlock.nolock[th1] /\ ~wlock.nolock[th2]
           /\ pc[th1] \in InWrite /\ pc[th2] \in InWrite)
            => wlock.local[th1] # wlock.local[th2])
  /\ [][\A th \in Threads :
          (pc'[th] # pc[th] /\ wlock'.nolock[th])
            => wlock'.holder = wlock.holder]_vars

\* C23 witness: one thread is between fprintf and fflush with the mutex,
\* and another that was given the same mutex waits at pthread_mutex_lock
C23_Witness ==
  \E th1, th2 \in Threads :
    /\ th1 # th2 /\ ~wlock.nolock[th1] /\ ~wlock.nolock[th2]
    /\ pc[th1] = "write_fflush" /\ pc[th2] = "write_lock"
    /\ wlock.local[th1] = wlock.local[th2]
    /\ wlock.holder[wlock.local[th1]] = th1

\* C24: for total > 0 the percentage printed is between 0 and 100; it is
\* an integer nearest to 100 * n / total when n <= total, and 100 when
\* n > total
C24_PercentageRounded ==
  (fmt.done /\ fmt.total > 0) =>
     LET shown == fmt.meter.percentage
     IN /\ 0 <= shown /\ shown <= 100
        /\ fmt.n > fmt.total => shown = 100
        /\ fmt.n <= fmt.total =>
             /\ 2 * (shown * fmt.total - 100 * fmt.n) <= fmt.total
             /\ 2 * (100 * fmt.n - shown * fmt.total) <= fmt.total

\* C25: when n = total > 0 the bar consists of bar_width full cells, with
\* no partial and no blank cell, in ASCII mode and in glyph mode
C25_FullBarAtTotal ==
  (fmt.done /\ fmt.total > 0 /\ fmt.n = fmt.total) =>
     /\ fmt.meter.bar.full = fmt.meter.bar_width
     /\ fmt.meter.bar.partial = 0
     /\ fmt.meter.bar.blank = 0

\* C26: a range with a nonzero step yields start, start + step, ... in
\* order, each value before end (below it for a positive step, above it
\* for a negative one); range_has_next is true exactly until
\* ceil(|end - start| / |step|) values were yielded, so the loop ends; and
\* range_next on an exhausted range leaves the cursor alone
C26_RangeYieldsInOrder ==
  /\ [](/\ got = [k \in 1..Len(got) |-> range.start + (k - 1) * range.step]
        /\ \A k \in 1..Len(got) :
             IF range.step > 0 THEN got[k] < range.total
             ELSE got[k] > range.total
        /\ Len(got) <= RangeCount(range)
        /\ ~fault
        /\ range_has_next(range) <=> Len(got) < RangeCount(range))
  /\ [][(RangeNext /\ ~range_has_next(range)) => range' = range]_vars

\* C27: a tqdm_update, tqdm_update_n or element-yielding tqdm_next on an
\* open, enabled instance writes a render iff the count gate passes
\* (complete, or miniters = 0, or n - last_print_count >= miniters, the
\* difference taken in the integers, so negative when n is below
\* last_print_count) and the time gate passes at the clock reading of the
\* call (complete, or reading - last_print_time >= mininterval)
C27_RenderIffBothGates ==
  [][((Update \/ UpdateN \/ (Next_ /\ tqdm_has_next(t, it))) /\ Open(t)) =>
       LET count_gate == \/ IsComplete(t')
                         \/ t'.miniters = 0
                         \/ t'.n - t.last_print_count >= t'.miniters
           time_gate(tm) == \/ IsComplete(t')
                            \/ tm - t.last_print_time >= t'.mininterval
       IN /\ out' = Render =>
               (count_gate /\ \E tm \in now..now' : time_gate(tm))
          /\ (count_gate /\ \A tm \in now..now' : time_gate(tm)) =>
               out' = Render]_vars

\* C28: tqdm_update_to on an open, enabled instance writes a render iff
\* the instance is complete, or the time gate passes and miniters is 0 or
\* n - last_print_count >= miniters, the difference being taken from the
\* count of the last render
C28_SetToGatesLikeAdvance ==
  [][\A v \in 0..MaxN : (UpdateToV(v) /\ Open(t)) =>
       LET count_gate == \/ t'.miniters = 0
                         \/ t'.n - t.last_print_count >= t'.miniters
           time_gate(tm) == tm - t.last_print_time >= t'.mininterval
       IN /\ out' = Render =>
               \/ IsComplete(t')
               \/ count_gate /\ \E tm \in now..now' : time_gate(tm)
          /\ (\/ IsComplete(t')
              \/ count_gate /\ \A tm \in now..now' : time_gate(tm))
               => out' = Render]_vars

\* C29: miniters changes only in tqdm_update, tqdm_update_n, tqdm_update_to
\* and tqdm_next; such a call on an open, enabled instance sets it to
\* 2 * (n - last_print_count), with the count and time of the previous
\* render, when miniters is 0 and the time gate fails in the call (the
\* instance is not complete and reading - last_print_time < mininterval),
\* and leaves it unchanged otherwise
C29_AdaptationStep ==
  /\ [][(~freed' /\ t'.miniters # t.miniters) => Advancing]_vars
  /\ [][(Advancing /\ Open(t) /\ t'.n # t.n) =>
          LET gate_fails(tm) == /\ ~IsComplete(t')
                                /\ tm - t.last_print_time < t.mininterval
          IN /\ t'.miniters # t.miniters =>
                  /\ t.miniters = 0
                  /\ \E tm \in now..now' : gate_fails(tm)
                  /\ t'.miniters = 2 * (t'.n - t.last_print_count)
             /\ (t.miniters = 0 /\ \A tm \in now..now' : gate_fails(tm))
                  => t'.miniters = 2 * (t'.n - t.last_print_count)]_vars

\* C30: on an open, enabled instance constructed with miniters = 0, every
\* tqdm_update or tqdm_update_n that raises n at least mininterval after
\* the last render writes a render, whatever calls came before
C30_AutoModeNeverStale ==
  [][((Update \/ UpdateN) /\ Open(t) /\ t0.miniters = 0 /\ t'.n > t.n
        /\ now - t.last_print_time >= t.mininterval)
       => out' = Render]_vars

\* C31: when an advance or a set-to of one thread runs against a close of
\* another, n does not change once closed is set: no step of tqdm_update or
\* tqdm_update_to taken on a closed instance changes n
C31_CountFrozenOnceClosed ==
  [][(t.closed /\ \E th \in Threads : UpdateStore(th) \/ UpdateToCS(th))
       => t'.n = t.n]_vars

\* C32: two threads closing one open, enabled, persistent instance at the
\* same time: all the closes together write one final render and one
\* newline
C32_ConcurrentCloseWritesOnce ==
  (t0.leave /\ ~t0.disable) => closing \in {NoWrite, <<"render", "nl">>}

\* C33: threads looping has-more / pull-next over one array: no element is
\* handed out twice, no pointer handed out lies at or beyond the array end,
\* and n never exceeds initial plus the number of elements
C33_SharedArrayLoop ==
  /\ \A j, k \in 1..Len(got) : j # k => got[j] # got[k]
  /\ \A k \in 1..Len(got) : got[k] < t.end
  /\ t.n <= t.initial + ArraySize

\* C34: in adapter mode every invocation of the adapter's has_next_func and
\* next_func is made by the thread that holds the instance's mutex
C34_AdapterCalledUnderLock ==
  [][\A th \in Threads :
       (\/ NextEnter(th) /\ invokes_has_next_func(t)
        \/ NextCS(th) /\ invokes_next_func(t)) => lock = th]_vars

\* C35: every call of advance, set-to, pull-next, refresh, set-description
\* or close that renders leaves last_print_count at the current n and
\* last_print_time at the clock reading of that render; an advance, set-to
\* or pull-next that does not render leaves both as they were
C35_RenderRecordsCountAndTime ==
  /\ []((~freed /\ \E k \in 1..Len(out) : out[k] = "render")
          => t.last_print_count = t.n /\ t.last_print_time = now)
  /\ [][(/\ ~freed /\ out' = NoWrite
         /\ \/ t'.last_print_count # t.last_print_count
            \/ t'.last_print_time # t.last_print_time)
          => ~Advancing]_vars

\* C35 witness: after advances that went by without a render, a
\* set-description with refresh rendered at a later clock reading
C35_Witness ==
  /\ ~freed /\ Open(t) /\ t.desc = "x" /\ out = Render
  /\ t.miniters = 2 /\ t.n = t.initial + 1
  /\ t.last_print_count = t.n /\ t.last_print_time = now
  /\ now > t.start_time

\* C36: the threshold is only ever derived from a positive count
\* difference: a call that changes miniters leaves n above the count of the
\* last render and miniters at exactly twice their difference
C36_ThresholdFromPositiveDifference ==
  [][(~freed' /\ t'.miniters # t.miniters)
       => /\ t'.n > t.last_print_count
          /\ t'.miniters = 2 * (t'.n - t.last_print_count)]_vars

\* C37: the bar has exactly bar_width cells: full cells, at most one
\* partial cell, blank cells, never more than its buffer holds, however
\* far n is above total; with total = 0 every cell is blank
C37_BarHasWidthCells ==
  fmt.done =>
    LET b == fmt.meter.bar
    IN /\ b.full >= 0 /\ b.blank >= 0 /\ b.partial \in 0..7
       /\ b.full + (IF b.partial > 0 THEN 1 ELSE 0) + b.blank
            = fmt.meter.bar_width
       /\ fmt.total = 0 => b.blank = fmt.meter.bar_width

\* C38 as stated: bar_width is ncols - (50 + description length + postfix
\* length) clamped into 1..100, for every ncols
C38_BarWidthClamped ==
  fmt.done =>
    LET w == fmt.ncols - (50 + fmt.prefix + fmt.postfix)
    IN fmt.meter.bar_width = IF w < 1 THEN 1 ELSE IF w > 100 THEN 100 ELSE w

\* C38 amended: when ncols is larger than 50 + description length + postfix
\* length, bar_width is their difference, at most 100; otherwise it is 10
C38_BarWidthOrFallback ==
  fmt.done =>
    LET w == fmt.ncols - (50 + fmt.prefix + fmt.postfix)
    IN fmt.meter.bar_width = IF w < 1 THEN 10 ELSE IF w > 100 THEN 100 ELSE w

\* C38 witness: a terminal of 53 columns with a description of 3 characters
\* and a postfix of 2 leaves no room, and the bar is 10 cells wide
C38_Witness ==
  /\ fmt.done /\ fmt.ncols = 53 /\ fmt.prefix = 3 /\ fmt.postfix = 2
  /\ fmt.meter.bar_width = 10

\* C39: when the copy of a configuration string fails, the constructor
\* passes none of the caller's own strings to free, whichever copy failed
C39_CallerStringsUntouched ==
  (ctor.done /\ ctor.fail \in Range(StringFields) /\ ~ctor.ok)
    => ctor.allocs.user_freed = {}

\* C40: leaving external-write mode unlocks the mutex that entering it
\* locked, whatever tqdm_set_lock did in between: no mutex is unlocked by a
\* thread that does not hold it, and when every context has been left no
\* mutex is held
C40_ExitReleasesWhatEnterLocked ==
  /\ ~wlock.unowned
  /\ (\A th \in Threads : pc[th] = "idle")
       => \A l \in Locks : wlock.holder[l] = NoThread


====
